---- MODULE Spec2Model ----
(***************************************************************************)
(* A model of the single-node ledger engine: Chain<Block>, the account     *)
(* table, Transaction::execute and Blockchain::append_block.               *)
(*                                                                         *)
(* Digests (Blake2s, hex encoded) are modelled by their preimage: two      *)
(* digests are equal exactly when their preimages are.  An ed25519         *)
(* signature is modelled by the pair (signing key, signed message); a      *)
(* keypair is named by its public key.                                     *)
(***************************************************************************)
EXTENDS Integers, Sequences, FiniteSets, TLC

VARIABLES
    blocks,           \* Blockchain.blocks: the Chain<Block>, oldest block first
    accounts,         \* Blockchain.accounts: HashMap<AccountId, Account>
    last,             \* the last call made on the Blockchain and what it returned
    panicked,         \* TRUE once a call has aborted (panic) instead of returning
    overflow_checks,  \* build profile: TRUE = overflow checks on (debug), FALSE = off (release)
    block,            \* the Block a caller holds and is building, when there is one
    appended,         \* the items given to Chain::append so far, first one first
    edits             \* how many writes were made through Chain::iter_mut

vars == <<blocks, accounts, last, panicked, overflow_checks, block, appended, edits>>

----------------------------------------------------------------------------
(* Bounds of the model *)

\* Balance = u128 is modelled as an unsigned integer of BalanceBits bits
BalanceBits == 2
\* the longest chain the model builds
MaxChain == 2
\* the most transactions a caller adds to one block
MaxTxs == 2

\* the blocks of the chains that are written to in place
MaxBlocks == 3

\* the writes made through iter_mut
MaxEdits == 1

\* the items appended to a Chain<u32>
MaxItems == 3

\* the most transactions of a genesis block built whole
MaxGenesisTxs == 4

\* the blocks of the chains in which transactions are repeated
MaxReplay == 3

BalanceModulus == 2 ^ BalanceBits
BalanceMax == BalanceModulus - 1

AccountIds == {"alice", "satoshi"}
PublicKeys == {1, 2}

----------------------------------------------------------------------------
(* Option<T> *)

None == <<>>
Some(v) == <<v>>
is_none(o) == o = <<>>
is_some(o) == o # <<>>
unwrap(o) == o[1]

----------------------------------------------------------------------------
(* Results and error messages (a backquote of the source is written ' here) *)

Ok == "Ok"
ErrAccountAlreadyExists(account_id) == "AccountId already exist: " \o account_id
ErrNotGenesis == "Initial Supply can be minted only in genesis block"
ErrInvalidAccount == "Invalid account."
ErrInvalidSenderAddress == "Invalid sender address."
ErrInsufficientBalance == "Insufficient balance"
ErrInvalidReceiverAddress == "Invalid receiver address."
ErrBalanceOverflow == "Balance overflow."
ErrSignatureMissing == "Signature is missing."
ErrFromUnset == "Tx 'from' is not defined."
ErrFromNotExist == "Account 'from' not exist."
ErrSignatureInvalid == "Invalid signature."
ErrInvalidBlockHash == "Block has invalid hash"
ErrEmptyBlock == "Block has 0 transaction."
ErrExecuting(error) == "Error during executing transactions: " \o error
ErrBlockInvalidHash(block_num) ==
    "Block " \o ToString(block_num) \o " has invalid hash"
ErrNoPrevHash(block_num) ==
    "Block " \o ToString(block_num) \o " doesn't have prev_hash"
ErrGenesisPrevHash == "Genesis block shouldn't have prev_hash"
ErrPrevHashMismatch(later, earlier) ==
    "Block " \o ToString(later) \o " prev_hash doesn't match Block "
        \o ToString(earlier) \o " hash"

\* the two ways a call aborts instead of returning
PanicUnwrapNone == "panic: called 'Option::unwrap()' on a 'None' value"
PanicAddOverflow == "panic: attempt to add with overflow"
Panics == {PanicUnwrapNone, PanicAddOverflow}

----------------------------------------------------------------------------
(* TransactionData and Transaction *)

CreateAccount(account_id, public_key) ==
    [kind |-> "CreateAccount", id |-> account_id, arg |-> public_key]
Transfer(to, amount) ==
    [kind |-> "Transfer", id |-> to, arg |-> amount]
MintInitialSupply(to, amount) ==
    [kind |-> "MintInitialSupply", id |-> to, arg |-> amount]

Transaction_new(data, from) ==
    [nonce |-> 0, timestamp |-> 0, data |-> data, from |-> from, signature |-> None]

set_from(tx, from) == [tx EXCEPT !.from = Some(from)]

add_signature(tx, signature) == [tx EXCEPT !.signature = Some(signature)]

\* faulty variant: the signature is hashed with the other fields
Transaction_hash_signed(tx) ==
    <<tx.nonce, tx.timestamp, tx.data, tx.from, tx.signature>>

\* Hashable for Transaction: the digest of (nonce, timestamp, data, from)
Transaction_hash(tx) == <<tx.nonce, tx.timestamp, tx.data, tx.from>>

\* Keypair::sign and PublicKey::verify
sign(keypair, message) == [key |-> keypair, msg |-> message]
\* faulty variant: a signature of the message by any key passes
verify_signature_any_key(public_key, message, signature) ==
    signature.msg = message

verify_signature(public_key, message, signature) ==
    signature.key = public_key /\ signature.msg = message

----------------------------------------------------------------------------
(* Account and the WorldState implementation of Blockchain *)

Account_new(account_type, public_key) ==
    [account_type |-> account_type, balance |-> 0, public_key |-> public_key]

get_account_ids(state) == DOMAIN state

\* Option<&Account>
get_account_by_id(state, id) ==
    IF id \in DOMAIN state THEN Some(state[id]) ELSE None

\* HashMap::insert
insert(state, id, account) ==
    [k \in DOMAIN state \cup {id} |-> IF k = id THEN account ELSE state[k]]

\* the account table after `balance = new_amount` through the &mut Account of id
set_balance(state, id, new_amount) ==
    [state EXCEPT ![id] = [@ EXCEPT !.balance = new_amount]]

\* faulty variant: the entry is inserted whether or not the id is taken
Blockchain_create_account_overwrite(state, account_id, account_type, public_key) ==
    [accounts |-> insert(state, account_id, Account_new(account_type, public_key)),
     result |-> Ok]

Blockchain_create_account(state, account_id, account_type, public_key) ==
    IF account_id \in DOMAIN state
    THEN [accounts |-> state, result |-> ErrAccountAlreadyExists(account_id)]
    ELSE [accounts |-> insert(state, account_id, Account_new(account_type, public_key)),
          result |-> Ok]

----------------------------------------------------------------------------
(* u128 arithmetic *)

checked_sub(a, b) == IF b > a THEN None ELSE Some(a - b)
checked_add(a, b) == IF a + b > BalanceMax THEN None ELSE Some(a + b)
wrapping_add(a, b) == (a + b) % BalanceModulus

----------------------------------------------------------------------------
(* State transition functions: each returns the account table it leaves   *)
(* behind and the Result it returns.                                       *)

create_account(state, account_id, public_key) ==
    Blockchain_create_account(state, account_id, "User", public_key)

\* faulty variant: the is_genesis test is missing
mint_in_any_block(state, to, amount, is_genesis, checks) ==
    IF to \in DOMAIN state
    THEN IF is_none(checked_add(state[to].balance, amount))
         THEN IF checks
              THEN [accounts |-> state, result |-> PanicAddOverflow]
              ELSE [accounts |-> set_balance(state, to, wrapping_add(state[to].balance, amount)),
                    result |-> Ok]
         ELSE [accounts |-> set_balance(state, to, state[to].balance + amount),
               result |-> Ok]
    ELSE [accounts |-> state, result |-> ErrInvalidAccount]

\* `account.balance += amount`: aborts when the build checks overflow,
\* wraps when it does not
mint_initial_supply(state, to, amount, is_genesis, checks) ==
    IF ~is_genesis
    THEN [accounts |-> state, result |-> ErrNotGenesis]
    ELSE IF to \in DOMAIN state
    THEN IF is_none(checked_add(state[to].balance, amount))
         THEN IF checks
              THEN [accounts |-> state, result |-> PanicAddOverflow]
              ELSE [accounts |-> set_balance(state, to, wrapping_add(state[to].balance, amount)),
                    result |-> Ok]
         ELSE [accounts |-> set_balance(state, to, state[to].balance + amount),
               result |-> Ok]
    ELSE [accounts |-> state, result |-> ErrInvalidAccount]

\* faulty variant: a sender may not spend its whole balance
debit_strict(state, from, amount) ==
    IF from \notin DOMAIN state
    THEN [accounts |-> state, result |-> ErrInvalidSenderAddress]
    ELSE IF amount >= state[from].balance
    THEN [accounts |-> state, result |-> ErrInsufficientBalance]
    ELSE [accounts |-> set_balance(state, from, state[from].balance - amount),
          result |-> Ok]

\* the first half of transfer: take amount from the sender
debit(state, from, amount) ==
    IF from \notin DOMAIN state
    THEN [accounts |-> state, result |-> ErrInvalidSenderAddress]
    ELSE LET new_amount == checked_sub(state[from].balance, amount)
         IN  IF is_none(new_amount)
             THEN [accounts |-> state, result |-> ErrInsufficientBalance]
             ELSE [accounts |-> set_balance(state, from, unwrap(new_amount)),
                   result |-> Ok]

\* faulty variant: the receiver's balance is replaced by the amount
credit_overwrite(state, to, amount) ==
    IF to \notin DOMAIN state
    THEN [accounts |-> state, result |-> ErrInvalidReceiverAddress]
    ELSE IF is_none(checked_add(state[to].balance, amount))
    THEN [accounts |-> state, result |-> ErrBalanceOverflow]
    ELSE [accounts |-> set_balance(state, to, amount), result |-> Ok]

\* the second half of transfer: give amount to the receiver
credit(state, to, amount) ==
    IF to \notin DOMAIN state
    THEN [accounts |-> state, result |-> ErrInvalidReceiverAddress]
    ELSE LET new_amount == checked_add(state[to].balance, amount)
         IN  IF is_none(new_amount)
             THEN [accounts |-> state, result |-> ErrBalanceOverflow]
             ELSE [accounts |-> set_balance(state, to, unwrap(new_amount)),
                   result |-> Ok]

\* faulty variant: a transfer that fails at the receiver leaves the sender
\* as it was
transfer_atomic(state, from, to, amount) ==
    LET debited == debit(state, from, amount)
    IN  IF debited.result # Ok
        THEN debited
        ELSE IF credit(debited.accounts, to, amount).result # Ok
        THEN [accounts |-> state,
              result |-> credit(debited.accounts, to, amount).result]
        ELSE credit(debited.accounts, to, amount)

\* faulty variant: every account but the sender's receives the amount
transfer_to_every_other(state, from, to, amount) ==
    LET debited == debit(state, from, amount)
        credited == credit(debited.accounts, to, amount)
    IN  IF debited.result # Ok
        THEN debited
        ELSE IF credited.result # Ok
        THEN credited
        ELSE [accounts |->
                 [id \in DOMAIN state |->
                     IF id \in {from, to}
                     THEN credited.accounts[id]
                     ELSE [credited.accounts[id] EXCEPT
                              !.balance = (@ + amount) % (BalanceMax + 1)]],
              result |-> Ok]

transfer(state, from, to, amount) ==
    LET debited == debit(state, from, amount)
    IN  IF debited.result # Ok
        THEN debited
        ELSE credit(debited.accounts, to, amount)

\* faulty variant: the sender is looked at before the signature
check_signature_sender_first(tx, state) ==
    IF is_none(tx.from)
    THEN ErrFromUnset
    ELSE IF is_none(tx.signature)
    THEN ErrSignatureMissing
    ELSE IF is_none(get_account_by_id(state, unwrap(tx.from)))
    THEN ErrFromNotExist
    ELSE IF ~verify_signature(unwrap(get_account_by_id(state, unwrap(tx.from))).public_key,
                              Transaction_hash(tx), unwrap(tx.signature))
    THEN ErrSignatureInvalid
    ELSE Ok

check_signature(tx, state) ==
    IF is_none(tx.signature)
    THEN ErrSignatureMissing
    ELSE IF is_none(tx.from)
    THEN ErrFromUnset
    ELSE IF is_none(get_account_by_id(state, unwrap(tx.from)))
    THEN ErrFromNotExist
    ELSE IF ~verify_signature(unwrap(get_account_by_id(state, unwrap(tx.from))).public_key,
                              Transaction_hash(tx), unwrap(tx.signature))
    THEN ErrSignatureInvalid
    ELSE Ok

\* the match on self.data in Transaction::execute
dispatch(tx, state, is_genesis, checks) ==
    CASE tx.data.kind = "CreateAccount" ->
            create_account(state, tx.data.id, tx.data.arg)
      [] tx.data.kind = "MintInitialSupply" ->
            mint_initial_supply(state, tx.data.id, tx.data.arg, is_genesis, checks)
      [] tx.data.kind = "Transfer" ->
            IF is_none(tx.from)
            THEN [accounts |-> state, result |-> PanicUnwrapNone]
            ELSE transfer(state, unwrap(tx.from), tx.data.id, tx.data.arg)

\* faulty variant: the signature is checked in the genesis block too
needs_signature_always(tx, is_genesis) == tx.data.kind # "CreateAccount"

\* whether Transaction::execute checks the signature of tx
needs_signature(tx, is_genesis) ==
    ~is_genesis /\ tx.data.kind # "CreateAccount"

execute(tx, state, is_genesis, checks) ==
    IF needs_signature(tx, is_genesis) /\ check_signature(tx, state) # Ok
    THEN [accounts |-> state, result |-> check_signature(tx, state)]
    ELSE dispatch(tx, state, is_genesis, checks)

----------------------------------------------------------------------------
(* Block *)

\* Hashable for Block: the digest of (prev_hash, nonce) followed by the hash
\* of every transaction, in order
Block_hash(b) ==
    <<b.prev_hash, b.nonce,
      [i \in 1..Len(b.transactions) |-> Transaction_hash(b.transactions[i])]>>

\* faulty variant: any cached hash passes
verify_any_cached(b) == is_some(b.hash)

\* faulty variant: a block without a cached hash passes
verify_absent_passes(b) == is_none(b.hash) \/ unwrap(b.hash) = Block_hash(b)

\* Verifiable for Block
verify(b) == is_some(b.hash) /\ unwrap(b.hash) = Block_hash(b)

Block_new(prev_hash) ==
    [nonce |-> 0, hash |-> None, prev_hash |-> prev_hash, transactions |-> <<>>]

\* faulty variant: the hash is cached once and then kept
update_hash_once(b) ==
    IF is_none(b.hash) THEN [b EXCEPT !.hash = Some(Block_hash(b))] ELSE b

update_hash(b) == [b EXCEPT !.hash = Some(Block_hash(b))]

set_nonce(b, nonce) == update_hash([b EXCEPT !.nonce = nonce])

add_transaction(b, tx) ==
    update_hash([b EXCEPT !.transactions = Append(@, tx)])

transactions_len(b) == Len(b.transactions)

----------------------------------------------------------------------------
(* Chain<T>: head is the newest node, each node owns its predecessor *)

Node_new(data, prev) == [data |-> data, prev |-> prev]

Chain_new == [head |-> None, len |-> 0]

\* faulty variant: the new node does not keep the old head
Chain_append_detached(chain, item) ==
    [head |-> Some(Node_new(item, None)), len |-> chain.len + 1]

Chain_append(chain, item) ==
    [head |-> Some(Node_new(item, chain.head)), len |-> chain.len + 1]

Chain_head(chain) ==
    IF is_none(chain.head) THEN None ELSE Some(unwrap(chain.head).data)

Chain_len(chain) == chain.len

\* ChainIter: the items from the node `next` on, newest first
RECURSIVE ChainIter(_)
ChainIter(next) ==
    IF is_none(next)
    THEN <<>>
    ELSE <<unwrap(next).data>> \o ChainIter(unwrap(next).prev)

Chain_iter(chain) == ChainIter(chain.head)

\* ChainIterMut: the nodes from `next` on after a write of item through the
\* reference that the n-th call of next() returns (n = 0 for the first)
RECURSIVE ChainIterMut(_, _, _)
ChainIterMut(next, n, item) ==
    IF n = 0
    THEN Some(Node_new(item, unwrap(next).prev))
    ELSE Some(Node_new(unwrap(next).data,
                       ChainIterMut(unwrap(next).prev, n - 1, item)))

\* *chain.iter_mut().nth(n).unwrap() = item
Chain_iter_mut(chain, n, item) ==
    [chain EXCEPT !.head = ChainIterMut(chain.head, n, item)]

----------------------------------------------------------------------------
(* Blockchain *)

Blockchain_new == [blocks |-> Chain_new, accounts |-> <<>>]

\* faulty variant: the hash of the last block is never handed out
get_last_block_hash_none(chain) == None

get_last_block_hash(chain) ==
    IF is_none(Chain_head(chain))
    THEN None
    ELSE Some(Block_hash(unwrap(Chain_head(chain))))

\* faulty variant: the loop goes on after a transaction that failed
ends_loop_never(result) == FALSE

\* the loop of append_block ends at a transaction whose result is an Err (or
\* that aborts)
ends_loop(result) == result # Ok

\* faulty variant: a transaction that was already executed in the block is
\* refused
RECURSIVE execute_transactions_once(_, _, _, _, _)
execute_transactions_once(txs, state, is_genesis, checks, steps) ==
    IF txs = <<>>
    THEN [accounts |-> state, result |-> Ok, steps |-> steps]
    ELSE LET r == IF \E i \in 1..Len(steps) : steps[i].tx = Head(txs)
                  THEN [accounts |-> state, result |-> "Transaction already executed"]
                  ELSE execute(Head(txs), state, is_genesis, checks)
             s == Append(steps, [tx |-> Head(txs), pre |-> state,
                                 post |-> r.accounts, result |-> r.result])
         IN  IF ends_loop(r.result)
             THEN [accounts |-> r.accounts, result |-> r.result, steps |-> s]
             ELSE execute_transactions_once(Tail(txs), r.accounts, is_genesis, checks, s)

\* the for loop of append_block over the transactions txs, from the account
\* table state on: stops at the first transaction that does not return Ok;
\* steps records what each executed transaction saw, left and returned
RECURSIVE execute_transactions(_, _, _, _, _)
execute_transactions(txs, state, is_genesis, checks, steps) ==
    IF txs = <<>>
    THEN [accounts |-> state, result |-> Ok, steps |-> steps]
    ELSE LET r == execute(Head(txs), state, is_genesis, checks)
             s == Append(steps, [tx |-> Head(txs), pre |-> state,
                                 post |-> r.accounts, result |-> r.result])
         IN  IF ends_loop(r.result)
             THEN [accounts |-> r.accounts, result |-> r.result, steps |-> s]
             ELSE execute_transactions(Tail(txs), r.accounts, is_genesis, checks, s)

\* faulty variant: the table is left as the failed block made it
restore_nothing(account_backup, state) == state

\* what is done with the account table when a transaction returned an error
restore(account_backup, state) == account_backup

\* faulty variant: a block without transactions is taken anywhere
refuses_nothing(is_genesis, b) == FALSE

\* the empty-block test of append_block
refuses_empty(is_genesis, b) == ~is_genesis /\ Len(b.transactions) = 0

\* Blockchain::append_block on the chain and account table given: the chain
\* and table it leaves, what it returns (or the panic it aborts with)
append_block(chain, state, b, checks) ==
    IF ~verify(b)
    THEN [blocks |-> chain, accounts |-> state, result |-> ErrInvalidBlockHash,
          steps |-> <<>>]
    ELSE LET is_genesis == Chain_len(chain) = 0
         IN  IF refuses_empty(is_genesis, b)
             THEN [blocks |-> chain, accounts |-> state, result |-> ErrEmptyBlock,
                   steps |-> <<>>]
             ELSE LET account_backup == state
                      r == execute_transactions(b.transactions, state, is_genesis,
                                                checks, <<>>)
                  IN  IF r.result \in Panics
                      THEN [blocks |-> chain, accounts |-> r.accounts,
                            result |-> r.result, steps |-> r.steps]
                      ELSE IF r.result # Ok
                      THEN [blocks |-> chain,
                            accounts |-> restore(account_backup, r.accounts),
                            result |-> ErrExecuting(r.result), steps |-> r.steps]
                      ELSE [blocks |-> Chain_append(chain, b), accounts |-> r.accounts,
                            result |-> Ok, steps |-> r.steps]

\* faulty variant: the predecessor hash is never compared
link_never_differs(prev_block_hash, b, block_num, len) == FALSE

\* the comparison validate makes at the block numbered block_num, between
\* the predecessor hash it took from the block after it (prev_block_hash)
\* and the cached hash of this block; not made at the newest block
link_differs(prev_block_hash, b, block_num, len) ==
    /\ block_num # len
    /\ is_some(prev_block_hash)
    /\ unwrap(prev_block_hash) # unwrap(b.hash)

\* faulty variant: the message names the block the loop is at and the one
\* before it
mismatch_error_own(block_num) == ErrPrevHashMismatch(block_num, block_num - 1)

\* the message of a failed comparison found at the block numbered block_num
mismatch_error(block_num) == ErrPrevHashMismatch(block_num + 1, block_num)

\* the for loop of validate over the blocks items, newest first
RECURSIVE validate_blocks(_, _, _, _)
validate_blocks(items, block_num, len, prev_block_hash) ==
    IF items = <<>>
    THEN Ok
    ELSE LET b == Head(items)
             is_genesis == block_num = 1
         IN  IF ~verify(b)
             THEN ErrBlockInvalidHash(block_num)
             ELSE IF is_none(b.prev_hash) /\ ~is_genesis
             THEN ErrNoPrevHash(block_num)
             ELSE IF is_some(b.prev_hash) /\ is_genesis
             THEN ErrGenesisPrevHash
             ELSE IF link_differs(prev_block_hash, b, block_num, len)
             THEN mismatch_error(block_num)
             ELSE validate_blocks(Tail(items), block_num - 1, len, b.prev_hash)

\* Blockchain::validate on the chain given
validate(chain) ==
    validate_blocks(Chain_iter(chain), Chain_len(chain), Chain_len(chain), None)

----------------------------------------------------------------------------
(* The inputs of the callers *)

Amounts == {1, BalanceMax}
Nonces == {1}

\* a transaction signed by keypair, as the tests sign it
signed(tx, keypair) == add_signature(tx, sign(keypair, Transaction_hash(tx)))

Senders == {None} \cup {Some(id) : id \in AccountIds}

CreateAccountTxs ==
    {Transaction_new(CreateAccount(id, pk), None) : id \in AccountIds, pk \in PublicKeys}

UnsignedTxs(amounts) ==
    {Transaction_new(Transfer(to, amount), from) :
        to \in AccountIds, amount \in amounts, from \in Senders}
    \cup
    {Transaction_new(MintInitialSupply(to, amount), from) :
        to \in AccountIds, amount \in amounts, from \in Senders}

SignedTxs(amounts) ==
    {signed(tx, keypair) : tx \in UnsignedTxs(amounts), keypair \in PublicKeys}

\* a transaction signed before its sender was set
StaleSignedTxs(amounts) ==
    {set_from(signed(Transaction_new(Transfer(to, amount), None), keypair), from) :
        to \in AccountIds, amount \in amounts, keypair \in PublicKeys,
        from \in AccountIds}

\* a hash that is no block's of the chain
ForeignHash == Block_hash(set_nonce(Block_new(None), 2))

\* the keypair each account holder owns
KeyOf(id) == IF id = "satoshi" THEN 1 ELSE IF id = "bob" THEN 3 ELSE 2

\* the transactions the callers of append_block put in blocks
BlockTxs ==
    {Transaction_new(CreateAccount(id, KeyOf(id)), None) : id \in AccountIds}
    \cup {Transaction_new(MintInitialSupply("satoshi", BalanceMax), None),
          signed(Transaction_new(MintInitialSupply("satoshi", 1), Some("satoshi")), 1),
          Transaction_new(Transfer("alice", 1), None),
          signed(Transaction_new(Transfer("alice", 1), Some("satoshi")), 1),
          signed(Transaction_new(Transfer("alice", BalanceMax), Some("satoshi")), 1),
          signed(Transaction_new(Transfer("satoshi", 1), Some("satoshi")), 1)}

\* the transaction lists of the blocks
TransactionLists == UNION {[1..n -> BlockTxs] : n \in 0..MaxTxs}

\* for transaction in transactions { block.add_transaction(transaction) }
RECURSIVE add_transactions(_, _)
add_transactions(b, txs) ==
    IF txs = <<>>
    THEN b
    ELSE add_transactions(add_transaction(b, Head(txs)), Tail(txs))

\* the block the helper of the tests builds before it appends it
build_block(prev_hash, nonce, txs) ==
    add_transactions(set_nonce(Block_new(prev_hash), nonce), txs)

\* the predecessor hashes callers give a new block: the one of the tests'
\* helpers, and a wrong one
PrevHashes == {get_last_block_hash(blocks), Some(ForeignHash)}

\* the transactions executed directly on the Blockchain as WorldState
AllAmounts == 0..BalanceMax
AllTxs ==
    CreateAccountTxs \cup UnsignedTxs(AllAmounts) \cup SignedTxs(AllAmounts)
    \cup StaleSignedTxs(AllAmounts)

----------------------------------------------------------------------------
(* The state machine *)

Init ==
    /\ blocks = Blockchain_new.blocks
    /\ accounts = Blockchain_new.accounts
    /\ last = None
    /\ panicked = FALSE
    /\ overflow_checks \in BOOLEAN
    /\ block = None
    /\ appended = <<>>
    /\ edits = 0

\* bc.append_block(b)
AppendBlock(b) ==
    /\ ~panicked
    /\ is_none(last)
    /\ LET r == append_block(blocks, accounts, b, overflow_checks)
       IN  /\ blocks' = r.blocks
           /\ accounts' = r.accounts
           /\ panicked' = (r.result \in Panics)
           /\ appended' = IF r.result = Ok THEN Append(appended, b) ELSE appended
           /\ last' = Some([op |-> "append_block",
                            is_genesis |-> (Chain_len(blocks) = 0),
                            blocks |-> blocks,
                            accounts |-> accounts,
                            result |-> r.result,
                            steps |-> r.steps])
    /\ UNCHANGED <<overflow_checks, block, edits>>

\* tx.execute(&mut bc, is_genesis), called on the Blockchain as WorldState
Execute(tx, is_genesis) ==
    /\ ~panicked
    /\ is_none(last)
    /\ LET r == execute(tx, accounts, is_genesis, overflow_checks)
       IN  /\ accounts' = r.accounts
           /\ panicked' = (r.result \in Panics)
           /\ last' = Some([op |-> "execute",
                            is_genesis |-> is_genesis,
                            blocks |-> blocks,
                            accounts |-> accounts,
                            result |-> r.result,
                            steps |-> <<[tx |-> tx, pre |-> accounts,
                                         post |-> r.accounts, result |-> r.result]>>])
    /\ UNCHANGED <<blocks, overflow_checks, block, appended, edits>>

\* the caller is done with the Result of the last call
Return ==
    /\ ~panicked
    /\ is_some(last)
    /\ last' = None
    /\ UNCHANGED <<blocks, accounts, panicked, overflow_checks, block, appended, edits>>

\* callers submit blocks built as the helper of the tests builds them, and
\* blocks that are new and never touched
Next ==
    \/ /\ is_none(last)
       /\ Chain_len(blocks) < MaxChain
       /\ \E prev_hash \in PrevHashes, nonce \in Nonces, txs \in TransactionLists :
             AppendBlock(build_block(prev_hash, nonce, txs))
    \/ /\ is_none(last)
       /\ Chain_len(blocks) < MaxChain
       /\ \E prev_hash \in PrevHashes : AppendBlock(Block_new(prev_hash))
    \/ Return

\* blocks are appended to a new Blockchain
Spec == Init /\ [][Next]_vars

NextExec ==
    \/ \E tx \in AllTxs, is_genesis \in BOOLEAN : Execute(tx, is_genesis)
    \/ Return

\* transactions are executed one by one on a new Blockchain
SpecExec == Init /\ [][NextExec]_vars

\* every block is built on the hash of the last block, as the helpers of the
\* tests build it, or is new and untouched
NextLinked ==
    \/ /\ is_none(last)
       /\ Chain_len(blocks) < MaxChain
       /\ \E nonce \in Nonces, txs \in TransactionLists :
             AppendBlock(build_block(get_last_block_hash(blocks), nonce, txs))
    \/ /\ is_none(last)
       /\ Chain_len(blocks) < MaxChain
       /\ AppendBlock(Block_new(get_last_block_hash(blocks)))
    \/ Return

SpecLinked == Init /\ [][NextLinked]_vars

----------------------------------------------------------------------------
(* A chain built by the helper of the tests and written to in place *)

\* the blocks of the chain, genesis first: BlockAt[1] is the genesis block
BlockAt ==
    LET items == Chain_iter(blocks)
    IN  [k \in 1..Len(items) |-> items[Len(items) - k + 1]]

\* what generate_random_account returns: an id that no account has yet;
\* which one makes no difference to the chain, so the n-th call returns the
\* n-th id
RandomAccounts == {"account" \o ToString(i) : i \in 1..MaxBlocks}
generate_random_account(state) ==
    "account" \o ToString(Cardinality(DOMAIN state) + 1)

\* the block the helper builds for an account id not seen before
helper_block(chain, nonce, id) ==
    build_block(get_last_block_hash(chain), nonce,
                <<Transaction_new(CreateAccount(id, KeyOf(id)), None)>>)

\* the values written to a predecessor hash
WrittenPrevHashes ==
    {None, Some(ForeignHash)}
    \cup {Some(unwrap(b.hash)) : b \in {BlockAt[k] : k \in DOMAIN BlockAt}}

\* the block b after one write to a field that leaves its cached hash alone:
\* to the nonce, to the predecessor hash, or to the transaction list, where
\* a transaction is replaced, is given a signature by add_signature, or is
\* pushed
Overwritten(b) ==
    {[b EXCEPT !.nonce = nonce] : nonce \in {1, 2}}
    \cup {[b EXCEPT !.prev_hash = prev_hash] : prev_hash \in WrittenPrevHashes}
    \cup {[b EXCEPT !.transactions[1] =
                 Transaction_new(CreateAccount("malicios user", 2), None)]}
    \cup {[b EXCEPT !.transactions[1] =
                 add_signature(@, sign(keypair, Transaction_hash(@)))] :
              keypair \in PublicKeys}
    \cup {[b EXCEPT !.transactions =
                 Append(@, Transaction_new(CreateAccount("malicios user", 2), None))]}

\* the record of a write through iter_mut to the block numbered k
WriteCall(op, k) ==
    Some([op |-> op, k |-> k, is_genesis |-> FALSE, blocks |-> blocks,
          accounts |-> accounts, result |-> Ok, steps |-> <<>>])

\* append_block(bc, nonce) of the tests
AppendHelperBlock(nonce, id) ==
    /\ Chain_len(blocks) < MaxBlocks
    /\ id = generate_random_account(accounts)
    /\ AppendBlock(helper_block(blocks, nonce, id))

\* a field of the block numbered k (1 = genesis) is written through
\* iter_mut and the cached hash is left as it is
WriteBlock(k, b) ==
    /\ ~panicked
    /\ is_none(last)
    /\ edits < MaxEdits
    /\ blocks' = Chain_iter_mut(blocks, Chain_len(blocks) - k, b)
    /\ edits' = edits + 1
    /\ last' = WriteCall("write", k)
    /\ UNCHANGED <<accounts, panicked, overflow_checks, block, appended>>

\* the predecessor hash of the block numbered k is written through iter_mut
\* and the block's hash is cached again
Relink(k, prev_hash) ==
    /\ ~panicked
    /\ is_none(last)
    /\ edits < MaxEdits
    /\ blocks' = Chain_iter_mut(blocks, Chain_len(blocks) - k,
                                update_hash([BlockAt[k] EXCEPT !.prev_hash = prev_hash]))
    /\ edits' = edits + 1
    /\ last' = WriteCall("relink", k)
    /\ UNCHANGED <<accounts, panicked, overflow_checks, block, appended>>

NextChain ==
    \/ \E nonce \in Nonces, id \in RandomAccounts : AppendHelperBlock(nonce, id)
    \/ \E k \in DOMAIN BlockAt : \E b \in Overwritten(BlockAt[k]) : WriteBlock(k, b)
    \/ \E k \in DOMAIN BlockAt : \E prev_hash \in WrittenPrevHashes :
          Relink(k, prev_hash)
    \/ Return

SpecChain == Init /\ [][NextChain]_vars

----------------------------------------------------------------------------
(* A Chain<u32>, as in the test of Chain: here blocks holds that chain *)

Items == {1, 2, 10}

\* chain.append(item)
ChainAppend(item) ==
    /\ is_none(last)
    /\ Chain_len(blocks) < MaxItems
    /\ blocks' = Chain_append(blocks, item)
    /\ appended' = Append(appended, item)
    /\ UNCHANGED <<accounts, last, panicked, overflow_checks, block, edits>>

\* chain.iter() driven until next() returns None, then chain.head() and
\* chain.len()
ChainRead ==
    /\ is_none(last)
    /\ last' = Some([op |-> "iter", blocks |-> blocks,
                     result |-> Chain_iter(blocks),
                     head |-> Chain_head(blocks),
                     len |-> Chain_len(blocks)])
    /\ UNCHANGED <<blocks, accounts, panicked, overflow_checks, block, appended, edits>>

NextItems ==
    \/ \E item \in Items : ChainAppend(item)
    \/ ChainRead
    \/ Return

SpecItems == Init /\ [][NextItems]_vars

----------------------------------------------------------------------------
(* Genesis blocks: a caller builds a block whole and submits a clone of it *)
(* to the empty chain                                                      *)

\* the transactions of these blocks: none of the mints and transfers
\* carries the signature of its sender
GenesisTxs ==
    {Transaction_new(CreateAccount(id, KeyOf(id)), None) : id \in AccountIds}
    \cup {Transaction_new(MintInitialSupply("satoshi", 1), None),
          Transaction_new(Transfer("alice", 1), Some("satoshi")),
          signed(Transaction_new(Transfer("alice", 1), Some("satoshi")), 2)}

GenesisLists == UNION {[1..n -> GenesisTxs] : n \in 0..MaxGenesisTxs}

\* the block is built as the helper of the tests builds it
BuildBlock(prev_hash, nonce, txs) ==
    /\ ~panicked
    /\ is_none(last)
    /\ is_none(block)
    /\ block' = Some(build_block(prev_hash, nonce, txs))
    /\ UNCHANGED <<blocks, accounts, last, panicked, overflow_checks, appended, edits>>

\* bc.append_block(block.clone()) on the empty chain
SubmitGenesis ==
    /\ is_some(block)
    /\ Chain_len(blocks) = 0
    /\ AppendBlock(unwrap(block))

NextGenesis ==
    \/ /\ is_none(block)
       /\ \E prev_hash \in PrevHashes, nonce \in Nonces, txs \in GenesisLists :
             BuildBlock(prev_hash, nonce, txs)
    \/ SubmitGenesis
    \/ Return

SpecGenesis == Init /\ [][NextGenesis]_vars

----------------------------------------------------------------------------
(* A ledger of three account holders who pay each other *)

\* the account holders of the tests
HolderIds == <<"satoshi", "alice", "bob">>
Holders == {HolderIds[i] : i \in 1..Len(HolderIds)}

\* the initial supply of each holder
Funds == [Holders -> {0} \cup Amounts]

\* the genesis block creates the accounts and mints each holder's supply
funded_genesis(funds) ==
    build_block(None, 1,
        [i \in 1..Len(HolderIds) |->
            Transaction_new(CreateAccount(HolderIds[i], KeyOf(HolderIds[i])), None)]
        \o [i \in 1..Len(HolderIds) |->
            Transaction_new(MintInitialSupply(HolderIds[i], funds[HolderIds[i]]), None)])

\* a transfer signed by its sender, as the tests sign it
HolderTransfers ==
    {signed(Transaction_new(Transfer(to, amount), Some(from)), KeyOf(from)) :
        from \in Holders, to \in Holders, amount \in Amounts}

NextHolders ==
    \/ /\ is_none(last)
       /\ Chain_len(blocks) = 0
       /\ \E funds \in Funds : AppendBlock(funded_genesis(funds))
    \/ /\ is_none(last)
       /\ Chain_len(blocks) > 0
       /\ Chain_len(blocks) < MaxChain
       /\ \E nonce \in Nonces, tx \in HolderTransfers :
             AppendBlock(build_block(get_last_block_hash(blocks), nonce, <<tx>>))
    \/ Return

SpecHolders == Init /\ [][NextHolders]_vars

----------------------------------------------------------------------------
(* Blocks that repeat a signed transfer *)

\* one transfer, signed once by its sender, beside what funds it
ReplayTxs ==
    {Transaction_new(CreateAccount(id, KeyOf(id)), None) : id \in AccountIds}
    \cup {Transaction_new(MintInitialSupply("satoshi", BalanceMax), None),
          signed(Transaction_new(Transfer("alice", 1), Some("satoshi")), 1)}

ReplayLists == UNION {[1..n -> ReplayTxs] : n \in 0..MaxTxs}

NextReplay ==
    \/ /\ is_none(last)
       /\ Chain_len(blocks) < MaxReplay
       /\ \E nonce \in Nonces, txs \in ReplayLists :
             AppendBlock(build_block(get_last_block_hash(blocks), nonce, txs))
    \/ Return

SpecReplay == Init /\ [][NextReplay]_vars

----------------------------------------------------------------------------
(* A caller that builds a Transaction call by call, as the tests do *)

\* the data callers give a transaction
TxDatas ==
    {CreateAccount(id, KeyOf(id)) : id \in AccountIds}
    \cup {Transfer("alice", amount) : amount \in Amounts}

\* a call on the transaction a caller holds: the transaction before the call
\* and after it
TxCall(op, before, tx) ==
    /\ ~panicked
    /\ last' = Some([op |-> op, before |-> before, tx |-> tx])
    /\ UNCHANGED <<blocks, accounts, panicked, overflow_checks, block, appended, edits>>

NewTransaction(data, from) ==
    /\ is_none(last)
    /\ TxCall("new", Transaction_new(data, from), Transaction_new(data, from))

SetFrom(from) ==
    /\ is_some(last)
    /\ TxCall("set_from", unwrap(last).tx, set_from(unwrap(last).tx, from))

\* the signature the tests attach: the keypair's, over the transaction's hash
AddSignature(keypair) ==
    /\ is_some(last)
    /\ TxCall("add_signature", unwrap(last).tx,
              add_signature(unwrap(last).tx,
                            sign(keypair, Transaction_hash(unwrap(last).tx))))

\* the assignment to the field data
WriteData(data) ==
    /\ is_some(last)
    /\ TxCall("write_data", unwrap(last).tx, [unwrap(last).tx EXCEPT !.data = data])

NextTx ==
    \/ \E data \in TxDatas, from \in Senders : NewTransaction(data, from)
    \/ \E from \in AccountIds : SetFrom(from)
    \/ \E keypair \in PublicKeys : AddSignature(keypair)
    \/ \E data \in TxDatas : WriteData(data)
    \/ Return

SpecTx == Init /\ [][NextTx]_vars

----------------------------------------------------------------------------
(* A caller that builds a Block call by call and submits clones of it *)

\* the transactions such a caller adds
BuildTxs ==
    {Transaction_new(CreateAccount(id, KeyOf(id)), None) : id \in AccountIds}
    \cup {Transaction_new(MintInitialSupply("satoshi", 1), None)}

\* the record of a call on the Block
BlockCall(op) ==
    Some([op |-> op, is_genesis |-> FALSE, blocks |-> blocks,
          accounts |-> accounts, result |-> Ok, steps |-> <<>>])

\* let mut block = Block::new(prev_hash)
NewBlock(prev_hash) ==
    /\ ~panicked
    /\ is_none(last)
    /\ block' = Some(Block_new(prev_hash))
    /\ last' = BlockCall("new")
    /\ UNCHANGED <<blocks, accounts, panicked, overflow_checks, appended, edits>>

\* block.set_nonce(nonce)
SetNonce(nonce) ==
    /\ ~panicked
    /\ is_none(last)
    /\ is_some(block)
    /\ block' = Some(set_nonce(unwrap(block), nonce))
    /\ last' = BlockCall("set_nonce")
    /\ UNCHANGED <<blocks, accounts, panicked, overflow_checks, appended, edits>>

\* block.add_transaction(tx)
AddTransaction(tx) ==
    /\ ~panicked
    /\ is_none(last)
    /\ is_some(block)
    /\ transactions_len(unwrap(block)) < MaxTxs
    /\ block' = Some(add_transaction(unwrap(block), tx))
    /\ last' = BlockCall("add_transaction")
    /\ UNCHANGED <<blocks, accounts, panicked, overflow_checks, appended, edits>>

\* block.nonce = nonce: a write to the field from inside the crate, which
\* leaves the cached hash as it is
WriteNonce(nonce) ==
    /\ ~panicked
    /\ is_none(last)
    /\ is_some(block)
    /\ unwrap(block).nonce # nonce
    /\ block' = Some([unwrap(block) EXCEPT !.nonce = nonce])
    /\ last' = BlockCall("write_nonce")
    /\ UNCHANGED <<blocks, accounts, panicked, overflow_checks, appended, edits>>

\* bc.append_block(block.clone())
SubmitBlock ==
    /\ is_some(block)
    /\ Chain_len(blocks) < MaxChain
    /\ AppendBlock(unwrap(block))

NextBlock ==
    \/ \E prev_hash \in PrevHashes : NewBlock(prev_hash)
    \/ \E nonce \in Nonces : SetNonce(nonce)
    \/ \E tx \in BuildTxs : AddTransaction(tx)
    \/ WriteNonce(2)
    \/ SubmitBlock
    \/ Return

\* a Block is built call by call and submitted to a new Blockchain
SpecBlock == Init /\ [][NextBlock]_vars

----------------------------------------------------------------------------
(* Vocabulary of the properties *)

\* the last call, when there is one
Called(op) == is_some(last) /\ unwrap(last).op = op
Last == unwrap(last)

\* the executed transactions of the last call
Steps == IF is_some(last) THEN {Last.steps[i] : i \in 1..Len(Last.steps)} ELSE {}

\* the result is an ordinary Err value
IsErr(result) == result # Ok /\ result \notin Panics

RECURSIVE SumOver(_, _)
SumOver(state, ids) ==
    IF ids = {}
    THEN 0
    ELSE LET id == CHOOSE i \in ids : TRUE
         IN  state[id].balance + SumOver(state, ids \ {id})

\* the sum of all account balances
TotalBalance(state) == SumOver(state, DOMAIN state)

\* tx carries the signature of its sender's stored key over its own hash
CorrectlySigned(tx, state) ==
    /\ is_some(tx.signature)
    /\ is_some(tx.from)
    /\ unwrap(tx.from) \in DOMAIN state
    /\ unwrap(tx.signature) = sign(state[unwrap(tx.from)].public_key, Transaction_hash(tx))

----------------------------------------------------------------------------
(* C1: when append_block returns the error of a failing transaction, the   *)
(* account table is the one before the call and the chain is unchanged.    *)

C1_RollbackOnError ==
    (Called("append_block") /\ Last.steps # <<>> /\ IsErr(Last.result))
        => /\ accounts = Last.accounts
           /\ blocks = Last.blocks

\* a rejected block whose earlier transactions had changed the table
C1_Witness ==
    /\ Called("append_block")
    /\ IsErr(Last.result)
    /\ Len(Last.steps) >= 2
    /\ Last.steps[Len(Last.steps)].pre # Last.accounts
    /\ accounts = Last.accounts

(* C2: the genesis block has no predecessor hash and every later block's   *)
(* predecessor hash is the hash of the block before it, after any sequence *)
(* of append_block calls.                                                  *)

C2_ChainLinked ==
    /\ Chain_len(blocks) >= 1 => is_none(BlockAt[1].prev_hash)
    /\ \A k \in 2..Chain_len(blocks) :
          BlockAt[k].prev_hash = Some(Block_hash(BlockAt[k - 1]))

(* C3: append_block always returns an Ok or an Err value; no block makes   *)
(* it abort.                                                               *)

C3_AppendBlockReturns ==
    Called("append_block") => Last.result \notin Panics

(* C4: once the genesis block is committed, the sum of all balances is the *)
(* same after every later append_block call, accepted or rejected.         *)

C4_SupplyConserved ==
    (Called("append_block") /\ ~Last.is_genesis)
        => TotalBalance(accounts) = TotalBalance(Last.accounts)

\* an accepted later block whose transfer moved funds between two accounts
C4_Witness ==
    /\ Called("append_block")
    /\ ~Last.is_genesis
    /\ Last.result = Ok
    /\ TotalBalance(accounts) > 0
    /\ \E id \in DOMAIN Last.accounts : accounts[id].balance # Last.accounts[id].balance

(* C5 as stated: a MintInitialSupply of the genesis block, executed again  *)
(* in a block appended to a non-empty chain, fails with NotGenesis.        *)

C5_Original ==
    \A s \in Steps :
        (/\ Called("append_block")
         /\ ~Last.is_genesis
         /\ s.tx.data.kind = "MintInitialSupply"
         /\ \E i \in 1..Len(BlockAt[1].transactions) : BlockAt[1].transactions[i] = s.tx)
            => /\ s.result = ErrNotGenesis
               /\ Last.result = ErrExecuting(ErrNotGenesis)

(* C5 amended: a MintInitialSupply executed in a block appended to a       *)
(* non-empty chain never takes effect: append_block fails and leaves the   *)
(* table as it was, with NotGenesis when the transaction is correctly      *)
(* signed by its sender, and with the error of the signature check         *)
(* otherwise.                                                              *)

C5_MintOnlyInGenesis ==
    \A s \in Steps :
        (Called("append_block") /\ ~Last.is_genesis /\ s.tx.data.kind = "MintInitialSupply")
            => /\ s.result = IF CorrectlySigned(s.tx, s.pre)
                             THEN ErrNotGenesis
                             ELSE IF is_none(s.tx.signature) THEN ErrSignatureMissing
                             ELSE IF is_none(s.tx.from) THEN ErrFromUnset
                             ELSE IF unwrap(s.tx.from) \notin DOMAIN s.pre THEN ErrFromNotExist
                             ELSE ErrSignatureInvalid
               /\ Last.result = ErrExecuting(s.result)
               /\ accounts = Last.accounts
               /\ blocks = Last.blocks

\* the signed mint that the genesis block executed is refused in a later block
C5_Witness ==
    /\ Called("append_block")
    /\ ~Last.is_genesis
    /\ Last.result = ErrExecuting(ErrNotGenesis)
    /\ \E s \in Steps :
          /\ s.tx.data.kind = "MintInitialSupply"
          /\ \E i \in 1..Len(BlockAt[1].transactions) : BlockAt[1].transactions[i] = s.tx
          /\ accounts[s.tx.data.id].balance = s.tx.data.arg

(* C6: a MintInitialSupply in genesis whose credit exceeds the largest     *)
(* Balance fails with an error value and changes nothing: the balance is   *)
(* not wrapped and the call does not abort.                                *)

C6_MintChecked ==
    \A s \in Steps :
        (/\ Last.is_genesis
         /\ s.tx.data.kind = "MintInitialSupply"
         /\ s.tx.data.id \in DOMAIN s.pre
         /\ s.pre[s.tx.data.id].balance + s.tx.data.arg > BalanceMax)
            => /\ IsErr(s.result)
               /\ s.post = s.pre

(* C7: outside genesis every Transfer and MintInitialSupply fails with     *)
(* SignatureMissing, else FromUnset, else 'Account from not exist', else   *)
(* SignatureInvalid, in this order and without touching the table; only a  *)
(* transaction that passes all four has its own logic run.                 *)

SignatureErrors ==
    {ErrSignatureMissing, ErrFromUnset, ErrFromNotExist, ErrSignatureInvalid}

C7_SignatureCheckedFirst ==
    \A s \in Steps :
        (~Last.is_genesis /\ s.tx.data.kind \in {"Transfer", "MintInitialSupply"})
            => /\ is_none(s.tx.signature) => s.result = ErrSignatureMissing
               /\ (is_some(s.tx.signature) /\ is_none(s.tx.from))
                    => s.result = ErrFromUnset
               /\ (/\ is_some(s.tx.signature)
                   /\ is_some(s.tx.from)
                   /\ unwrap(s.tx.from) \notin DOMAIN s.pre)
                    => s.result = ErrFromNotExist
               /\ (/\ is_some(s.tx.signature)
                   /\ is_some(s.tx.from)
                   /\ unwrap(s.tx.from) \in DOMAIN s.pre
                   /\ ~CorrectlySigned(s.tx, s.pre))
                    => s.result = ErrSignatureInvalid
               /\ s.result \in SignatureErrors => s.post = s.pre
               /\ CorrectlySigned(s.tx, s.pre) => s.result \notin SignatureErrors

\* a transfer signed with the sender's own key, but before the sender was
\* set, is refused as SignatureInvalid
C7_Witness ==
    /\ Called("execute")
    /\ ~Last.is_genesis
    /\ Last.result = ErrSignatureInvalid
    /\ \E s \in Steps :
          /\ s.tx.data.kind = "Transfer"
          /\ unwrap(s.tx.from) \in DOMAIN s.pre
          /\ unwrap(s.tx.signature).key = s.pre[unwrap(s.tx.from)].public_key
          /\ s.pre[unwrap(s.tx.from)].balance >= s.tx.data.arg

(* C8: an unsigned CreateAccount without sender succeeds, in genesis or    *)
(* not, exactly when its id is not in the table, and then adds a User      *)
(* account of balance 0 with the given key; otherwise it fails with        *)
(* AccountAlreadyExists and the table is untouched.                        *)

C8_CreateAccountOnce ==
    \A s \in Steps :
        (/\ s.tx.data.kind = "CreateAccount"
         /\ is_none(s.tx.signature)
         /\ is_none(s.tx.from))
            => IF s.tx.data.id \notin DOMAIN s.pre
               THEN /\ s.result = Ok
                    /\ DOMAIN s.post = DOMAIN s.pre \cup {s.tx.data.id}
                    /\ s.post[s.tx.data.id] =
                          [account_type |-> "User", balance |-> 0,
                           public_key |-> s.tx.data.arg]
                    /\ \A id \in DOMAIN s.pre : s.post[id] = s.pre[id]
               ELSE /\ s.result = ErrAccountAlreadyExists(s.tx.data.id)
                    /\ s.post = s.pre

\* outside genesis, a second creation with another key of an account that
\* holds funds is refused
C8_Witness ==
    /\ Called("execute")
    /\ ~Last.is_genesis
    /\ \E s \in Steps :
          /\ s.tx.data.kind = "CreateAccount"
          /\ s.tx.data.id \in DOMAIN s.pre
          /\ s.pre[s.tx.data.id].public_key # s.tx.data.arg
          /\ s.pre[s.tx.data.id].balance > 0
          /\ s.result = ErrAccountAlreadyExists(s.tx.data.id)
          /\ accounts = s.pre

\* the correctly signed transfers between existing accounts that the last
\* append_block executed
SignedTransfers ==
    {s \in Steps :
        /\ Called("append_block")
        /\ s.tx.data.kind = "Transfer"
        /\ CorrectlySigned(s.tx, s.pre)
        /\ s.tx.data.id \in DOMAIN s.pre}

(* C9 as stated: such a transfer is rejected with InsufficientBalance       *)
(* exactly when the amount exceeds the sender's balance, the rejection      *)
(* leaves every balance as before the append, and a transfer of exactly    *)
(* the sender's balance is accepted and leaves the sender at 0.            *)

C9_Original ==
    \A s \in SignedTransfers :
        LET sender == unwrap(s.tx.from)
        IN  /\ s.result = ErrInsufficientBalance <=> s.tx.data.arg > s.pre[sender].balance
            /\ s.result = ErrInsufficientBalance
                 => /\ Last.result = ErrExecuting(ErrInsufficientBalance)
                    /\ accounts = Last.accounts
            /\ s.tx.data.arg = s.pre[sender].balance
                 => /\ s.result = Ok
                    /\ s.post[sender].balance = 0

(* C9 amended: such a transfer is rejected with InsufficientBalance        *)
(* exactly when the amount exceeds the sender's balance, and the rejection *)
(* leaves every balance as before the append; a transfer of exactly the    *)
(* sender's balance is not rejected for its amount (it is accepted unless  *)
(* the receiver's balance would overflow), and when it is accepted it      *)
(* leaves the sender at 0 if the receiver is another account, and at its   *)
(* old balance if the sender pays itself.                                  *)

C9_InsufficientBalance ==
    \A s \in SignedTransfers :
        LET sender == unwrap(s.tx.from)
        IN  /\ s.result = ErrInsufficientBalance <=> s.tx.data.arg > s.pre[sender].balance
            /\ s.result = ErrInsufficientBalance
                 => /\ Last.result = ErrExecuting(ErrInsufficientBalance)
                    /\ accounts = Last.accounts
            /\ s.tx.data.arg = s.pre[sender].balance
                 => /\ s.result \in {Ok, ErrBalanceOverflow}
                    /\ s.result = Ok
                         => s.post[sender].balance =
                               IF s.tx.data.id = sender THEN s.pre[sender].balance ELSE 0

\* a block rejected for a transfer of more than the sender holds, after an
\* earlier transaction of the block had changed the table
C9_Witness ==
    /\ Called("append_block")
    /\ ~Last.is_genesis
    /\ Last.result = ErrExecuting(ErrInsufficientBalance)
    /\ \E s \in SignedTransfers :
          /\ s.result = ErrInsufficientBalance
          /\ s.pre # Last.accounts
    /\ accounts = Last.accounts

(* C10: an accepted block's correctly signed transfer of a from s to       *)
(* another existing account r takes exactly a from s, gives exactly a to   *)
(* r, and changes no other account, no type and no key.                    *)

C10_TransferMovesAmount ==
    \A s \in SignedTransfers :
        LET sender == unwrap(s.tx.from)
            receiver == s.tx.data.id
        IN  (Last.result = Ok /\ sender # receiver)
                => /\ DOMAIN s.post = DOMAIN s.pre
                   /\ s.post[sender] =
                         [s.pre[sender] EXCEPT !.balance = @ - s.tx.data.arg]
                   /\ s.post[receiver] =
                         [s.pre[receiver] EXCEPT !.balance = @ + s.tx.data.arg]
                   /\ \A id \in DOMAIN s.pre \ {sender, receiver} : s.post[id] = s.pre[id]

\* a holder pays another while a third holder has a balance of its own
C10_Witness ==
    /\ Called("append_block")
    /\ ~Last.is_genesis
    /\ Last.result = Ok
    /\ \E s \in SignedTransfers :
          /\ unwrap(s.tx.from) # s.tx.data.id
          /\ s.tx.data.arg > 0
          /\ \E id \in DOMAIN s.pre \ {unwrap(s.tx.from), s.tx.data.id} :
                /\ s.pre[id].balance > 0
                /\ s.pre[id].balance # s.pre[s.tx.data.id].balance
                /\ s.pre[id].public_key # s.pre[s.tx.data.id].public_key
                /\ accounts[id] = s.pre[id]
          /\ accounts = s.post
          /\ accounts # Last.accounts

----------------------------------------------------------------------------
(* C11: a block without transactions whose cached hash is right is taken   *)
(* only as the genesis block; on a chain that has a block the call returns *)
(* the empty-block error and leaves accounts and chain as they were, so    *)
(* every block from position 2 on has at least one transaction.            *)

C11_EmptyBlockOnlyGenesis ==
    /\ (Called("append_block") /\ is_some(block) /\ verify(unwrap(block))
          /\ transactions_len(unwrap(block)) = 0)
         => IF Last.is_genesis
            THEN /\ Last.result = Ok
                 /\ Chain_head(blocks) = block
                 /\ Chain_len(blocks) = 1
            ELSE /\ Last.result = ErrEmptyBlock
                 /\ accounts = Last.accounts
                 /\ blocks = Last.blocks
    /\ \A k \in 2..Chain_len(blocks) : transactions_len(BlockAt[k]) >= 1

C11_Witness ==
    /\ Called("append_block")
    /\ is_some(block)
    /\ verify(unwrap(block))
    /\ transactions_len(unwrap(block)) = 0
    /\ ~Last.is_genesis
    /\ Last.result = ErrEmptyBlock
    /\ Last.accounts # <<>>

----------------------------------------------------------------------------
(* C12: append_block returns the invalid-hash error for every block whose  *)
(* cached hash is absent or is not the hash of its present fields, as the  *)
(* genesis block too, before the empty-block test and before any           *)
(* transaction is executed, and leaves accounts and chain as they were.    *)

\* the cached hash of b is absent or differs from a new computation
StaleHash(b) == is_none(b.hash) \/ unwrap(b.hash) # Block_hash(b)

C12_InvalidBlockHash ==
    (Called("append_block") /\ is_some(block) /\ StaleHash(unwrap(block)))
        => /\ Last.result = ErrInvalidBlockHash
           /\ Last.steps = <<>>
           /\ accounts = Last.accounts
           /\ blocks = Last.blocks

\* a block with an outdated cached hash and no transaction is submitted to
\* a chain that has a block
C12_Witness ==
    /\ Called("append_block")
    /\ is_some(block)
    /\ is_some(unwrap(block).hash)
    /\ unwrap(unwrap(block).hash) # Block_hash(unwrap(block))
    /\ transactions_len(unwrap(block)) = 0
    /\ ~Last.is_genesis
    /\ Last.result = ErrInvalidBlockHash

----------------------------------------------------------------------------
(* C13: a block that was just constructed has no cached hash and does not  *)
(* verify; after every set_nonce and every add_transaction call the cached *)
(* hash is present and is the hash of the block's present predecessor      *)
(* hash, nonce and transactions, so the block verifies.                    *)

C13_MutatorsKeepHash ==
    /\ Called("new")
         => /\ is_some(block)
            /\ is_none(unwrap(block).hash)
            /\ ~verify(unwrap(block))
    /\ (Called("set_nonce") \/ Called("add_transaction"))
         => /\ is_some(block)
            /\ is_some(unwrap(block).hash)
            /\ unwrap(unwrap(block).hash)
                  = <<unwrap(block).prev_hash, unwrap(block).nonce,
                      [i \in 1..Len(unwrap(block).transactions)
                          |-> Transaction_hash(unwrap(block).transactions[i])]>>
            /\ verify(unwrap(block))

\* set_nonce is called on a block that already has two transactions
C13_Witness ==
    /\ Called("set_nonce")
    /\ is_some(block)
    /\ transactions_len(unwrap(block)) = 2
    /\ unwrap(block).nonce = 1
    /\ is_some(unwrap(block).prev_hash)
    /\ verify(unwrap(block))

----------------------------------------------------------------------------
(* C14: when every submitted block was constructed on the hash that        *)
(* get_last_block_hash returned and changed only by set_nonce and          *)
(* add_transaction, validate returns Ok after every append_block call,     *)
(* accepted or rejected, on the empty chain as on any longer one.          *)

C14_LinkedChainValidates == validate(blocks) = Ok

\* a second block, built on the hash of the first, was accepted
C14_Witness ==
    /\ Called("append_block")
    /\ Last.result = Ok
    /\ Chain_len(blocks) = 2
    /\ Len(appended) = 2
    /\ is_some(BlockAt[2].prev_hash)
    /\ validate(blocks) = Ok

----------------------------------------------------------------------------
(* C15: on a chain that validates, writing to the predecessor hash of      *)
(* block k >= 2 a hash that is not the hash of block k-1, and caching the  *)
(* hash of block k again, makes validate return the mismatch of the        *)
(* newest broken link: 'Block k prev_hash doesn't match Block k-1 hash'    *)
(* when k is the newest block, and 'Block k+1 prev_hash doesn't match      *)
(* Block k hash' when a block follows k, whose recorded predecessor hash   *)
(* is no longer the hash of block k.                                       *)

\* the block numbered k of a chain (1 = genesis)
ItemAt(chain, k) ==
    LET items == Chain_iter(chain)
    IN  items[Len(items) - k + 1]

\* block k >= 2 of a chain that validated was given another hash as its
\* predecessor hash than the hash of block k-1
Relinked ==
    /\ Called("relink")
    /\ validate(Last.blocks) = Ok
    /\ Last.k >= 2
    /\ is_some(BlockAt[Last.k].prev_hash)
    /\ unwrap(BlockAt[Last.k].prev_hash) # Block_hash(BlockAt[Last.k - 1])

\* as stated: the message always names k and k-1
C15_Original ==
    Relinked => validate(blocks) = ErrPrevHashMismatch(Last.k, Last.k - 1)

C15_NewestBrokenLink ==
    Relinked =>
        /\ \A j \in DOMAIN BlockAt :
              j # Last.k => BlockAt[j] = ItemAt(Last.blocks, j)
        /\ verify(BlockAt[Last.k])
        /\ validate(blocks) =
              IF Last.k = Chain_len(blocks)
              THEN ErrPrevHashMismatch(Last.k, Last.k - 1)
              ELSE ErrPrevHashMismatch(Last.k + 1, Last.k)

\* the predecessor hash of a block that is not the newest was replaced
C15_Witness ==
    /\ Relinked
    /\ Last.k < Chain_len(blocks)
    /\ validate(blocks) = ErrPrevHashMismatch(Last.k + 1, Last.k)

----------------------------------------------------------------------------
(* C16: on a chain that validates, changing the nonce, the predecessor     *)
(* hash or a transaction of block k in place, for any k from 1 to the      *)
(* length, without caching the hash again, makes verify false for block k  *)
(* and makes validate return 'Block k has invalid hash'.                   *)

\* a field of block k of a chain that validated was changed
Overwrote ==
    /\ Called("write")
    /\ validate(Last.blocks) = Ok
    /\ BlockAt[Last.k] # ItemAt(Last.blocks, Last.k)

(* C16 as stated: every such change, of the transaction list too, makes    *)
(* verify false for block k and validate return 'Block k has invalid      *)
(* hash'.                                                                  *)

C16_Original ==
    Overwrote =>
        /\ BlockAt[Last.k].hash = ItemAt(Last.blocks, Last.k).hash
        /\ ~verify(BlockAt[Last.k])
        /\ validate(blocks) = ErrBlockInvalidHash(Last.k)

\* two blocks differ at most in the signatures of their transactions
OnlySignaturesDiffer(b1, b2) ==
    /\ b1.prev_hash = b2.prev_hash
    /\ b1.nonce = b2.nonce
    /\ Len(b1.transactions) = Len(b2.transactions)
    /\ \A i \in 1..Len(b1.transactions) :
          /\ b1.transactions[i].nonce = b2.transactions[i].nonce
          /\ b1.transactions[i].timestamp = b2.transactions[i].timestamp
          /\ b1.transactions[i].data = b2.transactions[i].data
          /\ b1.transactions[i].from = b2.transactions[i].from

(* C16, amended: the change makes verify false for block k and validate    *)
(* return 'Block k has invalid hash' exactly when it changes the nonce,    *)
(* the predecessor hash, the number of transactions, or the nonce,         *)
(* timestamp, data or sender of a transaction; a change of signatures      *)
(* alone leaves verify true and validate Ok.                               *)

C16_HashedChangeReported ==
    Overwrote =>
        /\ BlockAt[Last.k].hash = ItemAt(Last.blocks, Last.k).hash
        /\ ~OnlySignaturesDiffer(BlockAt[Last.k], ItemAt(Last.blocks, Last.k))
              => /\ ~verify(BlockAt[Last.k])
                 /\ validate(blocks) = ErrBlockInvalidHash(Last.k)
        /\ OnlySignaturesDiffer(BlockAt[Last.k], ItemAt(Last.blocks, Last.k))
              => /\ verify(BlockAt[Last.k])
                 /\ validate(blocks) = Ok

\* a transaction of a block that is neither the first nor the newest was
\* replaced
C16_Witness ==
    /\ Overwrote
    /\ Last.k > 1
    /\ Last.k < Chain_len(blocks)
    /\ BlockAt[Last.k].transactions # ItemAt(Last.blocks, Last.k).transactions
    /\ validate(blocks) = ErrBlockInvalidHash(Last.k)

----------------------------------------------------------------------------
(* C17: validate returns Ok exactly when every block has a cached hash     *)
(* that is the hash of its fields, block 1 has no predecessor hash, every  *)
(* later block has one, and the predecessor hash of every block k >= 2,    *)
(* the newest included, is the hash of block k-1; the empty chain          *)
(* validates.                                                              *)

Linked ==
    /\ \A k \in DOMAIN BlockAt :
          /\ is_some(BlockAt[k].hash)
          /\ unwrap(BlockAt[k].hash) = Block_hash(BlockAt[k])
    /\ \A k \in DOMAIN BlockAt : is_none(BlockAt[k].prev_hash) <=> k = 1
    /\ \A k \in DOMAIN BlockAt :
          k >= 2 => BlockAt[k].prev_hash = Some(Block_hash(BlockAt[k - 1]))

C17_ValidateIffLinked ==
    /\ validate(blocks) = Ok <=> Linked
    /\ Chain_len(blocks) = 0 => validate(blocks) = Ok

\* the only fault of the chain is the link of a block that is not the
\* newest
C17_Witness ==
    /\ Chain_len(blocks) = 3
    /\ edits > 0
    /\ \A k \in DOMAIN BlockAt : verify(BlockAt[k])
    /\ \A k \in DOMAIN BlockAt : is_none(BlockAt[k].prev_hash) <=> k = 1
    /\ BlockAt[3].prev_hash = Some(Block_hash(BlockAt[2]))
    /\ BlockAt[2].prev_hash # Some(Block_hash(BlockAt[1]))
    /\ validate(blocks) # Ok

----------------------------------------------------------------------------
(* C18: for a chain made by appending x1, ..., xn (n >= 0), the iterator   *)
(* yields xn, ..., x1 and then ends, head returns xn (nothing when n = 0), *)
(* the tracked length is n and is the number of nodes reachable from the   *)
(* head, and reading leaves the chain as it was, so that iterating again   *)
(* yields the same.                                                        *)

Reverse(seq) == [i \in 1..Len(seq) |-> seq[Len(seq) - i + 1]]

\* the number of nodes from `next` on
RECURSIVE Nodes(_)
Nodes(next) == IF is_none(next) THEN 0 ELSE 1 + Nodes(unwrap(next).prev)

C18_NewestFirst ==
    /\ blocks.len = Len(appended)
    /\ blocks.len = Nodes(blocks.head)
    /\ Called("iter")
         => /\ Last.result = Reverse(appended)
            /\ Last.head = IF appended = <<>>
                            THEN None
                            ELSE Some(appended[Len(appended)])
            /\ Last.len = Len(appended)
            /\ blocks = Last.blocks

\* 1, 2 and 10 were appended in this order, as in the test
C18_Witness ==
    /\ Called("iter")
    /\ appended = <<1, 2, 10>>
    /\ Last.result = <<10, 2, 1>>
    /\ Last.head = Some(10)
    /\ Last.len = 3

----------------------------------------------------------------------------
(* C19: from one state to the next, across append_block calls, every       *)
(* account stays in the table with its type and public key; an account is  *)
(* new only after an accepted block with a CreateAccount for it; a balance *)
(* differs only after an accepted block with a MintInitialSupply or a      *)
(* Transfer that names the account.                                        *)

\* the step is an append_block call that returned Ok
AcceptedStep == is_none(last) /\ is_some(last') /\ unwrap(last').result = Ok

\* the transactions of the block of the step
StepTxs ==
    IF is_some(last')
    THEN {unwrap(last').steps[i].tx : i \in 1..Len(unwrap(last').steps)}
    ELSE {}

\* tx is a mint to the account id or a transfer to or from it
NamesAccount(tx, id) ==
    /\ tx.data.kind \in {"MintInitialSupply", "Transfer"}
    /\ \/ tx.data.id = id
       \/ tx.data.kind = "Transfer" /\ tx.from = Some(id)

LedgerStep ==
    /\ \A id \in DOMAIN accounts :
          /\ id \in DOMAIN accounts'
          /\ accounts'[id].account_type = accounts[id].account_type
          /\ accounts'[id].public_key = accounts[id].public_key
          /\ accounts'[id].balance # accounts[id].balance
               => /\ AcceptedStep
                  /\ \E tx \in StepTxs : NamesAccount(tx, id)
    /\ \A id \in DOMAIN accounts' \ DOMAIN accounts :
          /\ AcceptedStep
          /\ \E tx \in StepTxs : tx.data.kind = "CreateAccount" /\ tx.data.id = id
          /\ accounts'[id].balance # 0 => \E tx \in StepTxs : NamesAccount(tx, id)

C19_LedgerOnlyByAcceptedBlocks == [][LedgerStep]_vars

\* the same for the calls that return
C19_ReturningCalls == [][~panicked' => LedgerStep]_vars

----------------------------------------------------------------------------
(* C20: append_block executes the transactions of a block in the order of  *)
(* the list, each on the accounts the one before it left: a genesis block  *)
(* [CreateAccount(x), MintInitialSupply(x, a)] is accepted and leaves      *)
(* balance(x) = a, a MintInitialSupply(x) executed before x exists fails   *)
(* with the invalid-account error, the error returned wraps the message of *)
(* the first transaction that failed, and no transaction after that one is *)
(* executed.                                                               *)

\* a block that passed the hash test and the empty-block test was submitted
Executed ==
    /\ Called("append_block")
    /\ is_some(block)
    /\ verify(unwrap(block))
    /\ Last.is_genesis \/ transactions_len(unwrap(block)) > 0

C20_ListOrder ==
    Executed =>
        LET txs == unwrap(block).transactions
            steps == Last.steps
            n == Len(steps)
        IN  /\ n <= Len(txs)
            /\ \A i \in 1..n :
                  /\ steps[i].tx = txs[i]
                  /\ steps[i].pre = IF i = 1 THEN Last.accounts ELSE steps[i - 1].post
                  /\ i < n => steps[i].result = Ok
            /\ IF n > 0 /\ steps[n].result # Ok
               THEN \/ Last.result = ErrExecuting(steps[n].result)
                    \/ Last.result \in Panics /\ Last.result = steps[n].result
               ELSE /\ n = Len(txs)
                    /\ Last.result = Ok
                    /\ accounts = IF n = 0 THEN Last.accounts ELSE steps[n].post
            /\ \A id \in AccountIds :
                  (/\ Last.is_genesis
                   /\ id \notin DOMAIN Last.accounts
                   /\ Len(txs) = 2
                   /\ txs[1].data = CreateAccount(id, KeyOf(id))
                   /\ txs[2].data.kind = "MintInitialSupply"
                   /\ txs[2].data.id = id)
                  => /\ Last.result = Ok
                     /\ accounts[id].balance = txs[2].data.arg
            /\ \A id \in AccountIds :
                  (/\ Last.is_genesis
                   /\ id \notin DOMAIN Last.accounts
                   /\ Len(txs) >= 1
                   /\ txs[1].data.kind = "MintInitialSupply"
                   /\ txs[1].data.id = id)
                  => /\ Last.result = ErrExecuting(ErrInvalidAccount)
                     /\ n = 1
                     /\ accounts = Last.accounts

\* the mint stands before the CreateAccount of its account in a genesis
\* block
C20_Witness ==
    /\ Executed
    /\ Last.is_genesis
    /\ transactions_len(unwrap(block)) = 2
    /\ unwrap(block).transactions[1].data.kind = "MintInitialSupply"
    /\ unwrap(block).transactions[2].data.kind = "CreateAccount"
    /\ unwrap(block).transactions[2].data.id = unwrap(block).transactions[1].data.id
    /\ Len(Last.steps) = 1
    /\ Last.result = ErrExecuting(ErrInvalidAccount)

----------------------------------------------------------------------------
(* C21: in the genesis block (the chain is empty when the block is         *)
(* submitted) no signature is checked for any kind of transaction: a       *)
(* Transfer or MintInitialSupply without a signature, or with a wrong one, *)
(* has the outcome of its own logic alone; and append_block does not look  *)
(* at the predecessor hash of the block: whether the block is accepted     *)
(* depends on its transactions only.                                       *)

\* a block with a right cached hash was submitted to the empty chain
GenesisExecuted ==
    /\ Called("append_block")
    /\ Last.is_genesis
    /\ is_some(block)
    /\ verify(unwrap(block))

C21_GenesisUnchecked ==
    GenesisExecuted =>
        LET txs == unwrap(block).transactions
            steps == Last.steps
        IN  /\ \A i \in 1..Len(steps) :
                  /\ steps[i].result \notin SignatureErrors
                  /\ steps[i].result =
                        dispatch(steps[i].tx, steps[i].pre, TRUE, overflow_checks).result
                  /\ steps[i].post =
                        dispatch(steps[i].tx, steps[i].pre, TRUE, overflow_checks).accounts
            /\ Last.result = Ok
                  <=> /\ Len(steps) = Len(txs)
                      /\ \A i \in 1..Len(steps) : steps[i].result = Ok
            /\ Last.result = Ok => Chain_head(blocks) = block

\* a genesis block with a predecessor hash is accepted whose mint and
\* transfer carry no signature; the transfer has moved the amount
C21_Witness ==
    /\ GenesisExecuted
    /\ is_some(unwrap(block).prev_hash)
    /\ Last.result = Ok
    /\ \E i \in 1..Len(Last.steps) :
          /\ Last.steps[i].tx.data.kind = "MintInitialSupply"
          /\ is_none(Last.steps[i].tx.signature)
          /\ is_none(Last.steps[i].tx.from)
    /\ \E i \in 1..Len(Last.steps) :
          /\ Last.steps[i].tx.data.kind = "Transfer"
          /\ is_none(Last.steps[i].tx.signature)
          /\ Last.steps[i].post["alice"].balance = Last.steps[i].pre["alice"].balance + 1
    /\ Chain_len(blocks) = 1

----------------------------------------------------------------------------
(* C22: execute of a Transfer is not atomic: when the sender exists and    *)
(* has the amount, but the receiver is absent or the credit would          *)
(* overflow, execute returns the invalid-receiver or the balance-overflow  *)
(* error and leaves the sender's balance reduced by the amount in the      *)
(* table it was given; append_block, which restores the table it saved     *)
(* before the block, undoes the debit.                                     *)

\* a Transfer was executed that got past the signature check and whose
\* sender has the amount
DebitedTransfer ==
    /\ Called("execute")
    /\ Last.steps[1].tx.data.kind = "Transfer"
    /\ is_some(Last.steps[1].tx.from)
    /\ ~needs_signature(Last.steps[1].tx, Last.is_genesis)
         \/ CorrectlySigned(Last.steps[1].tx, Last.accounts)
    /\ unwrap(Last.steps[1].tx.from) \in DOMAIN Last.accounts
    /\ Last.accounts[unwrap(Last.steps[1].tx.from)].balance >= Last.steps[1].tx.data.arg

C22_DebitSurvivesFailedCredit ==
    DebitedTransfer =>
        LET tx == Last.steps[1].tx
            from == unwrap(tx.from)
            to == tx.data.id
            amount == tx.data.arg
            pre == Last.accounts
            debited == [pre EXCEPT ![from].balance = @ - amount]
            in_block == append_block(Chain_new, pre, build_block(None, 1, <<tx>>),
                                     overflow_checks)
        IN  /\ to \notin DOMAIN pre
                 => /\ Last.result = ErrInvalidReceiverAddress
                    /\ accounts = debited
                    /\ in_block.result = ErrExecuting(ErrInvalidReceiverAddress)
                    /\ in_block.accounts = pre
            /\ (to \in DOMAIN pre /\ debited[to].balance + amount > BalanceMax)
                 => /\ Last.result = ErrBalanceOverflow
                    /\ accounts = debited
                    /\ in_block.result = ErrExecuting(ErrBalanceOverflow)
                    /\ in_block.accounts = pre
            /\ Last.result \in {ErrInvalidReceiverAddress, ErrBalanceOverflow}
                 => accounts = debited

\* the credit overflowed and the sender has lost the amount
C22_Witness ==
    /\ DebitedTransfer
    /\ Last.result = ErrBalanceOverflow
    /\ Last.steps[1].tx.data.arg > 0
    /\ accounts[unwrap(Last.steps[1].tx.from)].balance
         = Last.accounts[unwrap(Last.steps[1].tx.from)].balance - Last.steps[1].tx.data.arg
    /\ accounts[Last.steps[1].tx.data.id] = Last.accounts[Last.steps[1].tx.data.id]

----------------------------------------------------------------------------
(* C23: outside genesis a balance goes down only by the execution of a     *)
(* Transfer whose sender is that account and whose signature verifies      *)
(* with the stored public key of that account over the hash of the         *)
(* transaction; no transaction without signature, without sender or with   *)
(* a wrong signature lowers a balance.                                     *)

\* the accounts whose balance the last call has lowered
Lowered ==
    {id \in DOMAIN Last.accounts :
        id \in DOMAIN accounts /\ accounts[id].balance < Last.accounts[id].balance}

C23_OnlySignedTransfersDebit ==
    (Called("execute") /\ ~Last.is_genesis) =>
        \A id \in Lowered :
            LET tx == Last.steps[1].tx
            IN  /\ tx.data.kind = "Transfer"
                /\ tx.from = Some(id)
                /\ is_some(tx.signature)
                /\ unwrap(tx.signature).key = Last.accounts[id].public_key
                /\ unwrap(tx.signature).msg = <<tx.nonce, tx.timestamp, tx.data, tx.from>>
                /\ accounts[id].balance = Last.accounts[id].balance - tx.data.arg

\* a signed transfer to another account was executed outside genesis
C23_Witness ==
    /\ Called("execute")
    /\ ~Last.is_genesis
    /\ Last.result = Ok
    /\ Lowered # {}
    /\ \A id \in Lowered : Last.steps[1].tx.data.id # id
    /\ CorrectlySigned(Last.steps[1].tx, Last.accounts)

----------------------------------------------------------------------------
(* C24: whether a signed Transfer is executed does not depend on whether   *)
(* the same transaction (same nonce, timestamp, data, sender, signature)   *)
(* was executed before: included again in a later block, or a second time  *)
(* in the same block, it is executed again and debits the sender again,    *)
(* as long as the balance suffices.                                        *)

\* the transactions of the blocks of a chain
ChainTxs(chain) ==
    UNION {{b.transactions[i] : i \in 1..Len(b.transactions)} :
              b \in {Chain_iter(chain)[k] : k \in 1..Len(Chain_iter(chain))}}

\* the i-th executed transaction of the last call stands in a block of the
\* chain already, or was executed before in the same block
Repeated(i) ==
    \/ Last.steps[i].tx \in ChainTxs(Last.blocks)
    \/ \E j \in 1..(i - 1) : Last.steps[j].tx = Last.steps[i].tx

C24_RepeatExecutes ==
    Called("append_block") =>
        \A i \in 1..Len(Last.steps) :
            LET tx == Last.steps[i].tx
                pre == Last.steps[i].pre
                post == Last.steps[i].post
            IN  (/\ tx.data.kind = "Transfer"
                 /\ Repeated(i)
                 /\ CorrectlySigned(tx, pre)
                 /\ pre[unwrap(tx.from)].balance >= tx.data.arg
                 /\ tx.data.id \in DOMAIN pre
                 /\ tx.data.id # unwrap(tx.from)
                 /\ pre[tx.data.id].balance + tx.data.arg <= BalanceMax)
                => /\ Last.steps[i].result = Ok
                   /\ post[unwrap(tx.from)].balance
                        = pre[unwrap(tx.from)].balance - tx.data.arg
                   /\ post[tx.data.id].balance = pre[tx.data.id].balance + tx.data.arg

\* a block is accepted that holds twice a transfer which an earlier block
\* holds too; the sender is debited twice
C24_Witness ==
    /\ Called("append_block")
    /\ Last.result = Ok
    /\ Len(Last.steps) = 2
    /\ Last.steps[1].tx = Last.steps[2].tx
    /\ Last.steps[1].tx.data.kind = "Transfer"
    /\ Last.steps[1].tx \in ChainTxs(Last.blocks)
    /\ accounts["satoshi"].balance = Last.accounts["satoshi"].balance - 2
    /\ Chain_len(blocks) = Chain_len(Last.blocks) + 1

----------------------------------------------------------------------------
(* C25: the hash of a Transaction is a function of (nonce, timestamp,      *)
(* data, from) only: attaching or replacing a signature leaves the hash    *)
(* unchanged, and with it the hash of any block that holds the             *)
(* transaction; changing the data, or the sender by set_from, changes the  *)
(* hash.                                                                   *)

\* the hash of a block that holds the transaction, for either predecessor
HoldingBlockHashes(tx) ==
    {Block_hash(build_block(prev_hash, nonce, <<tx>>)) :
        prev_hash \in {None, Some(ForeignHash)}, nonce \in Nonces}

\* two transactions agree on the four hashed fields
SameHashedFields(t1, t2) ==
    /\ t1.nonce = t2.nonce
    /\ t1.timestamp = t2.timestamp
    /\ t1.data = t2.data
    /\ t1.from = t2.from

C25_HashIgnoresSignature ==
    is_some(last) =>
        /\ (Transaction_hash(Last.tx) = Transaction_hash(Last.before))
              <=> SameHashedFields(Last.tx, Last.before)
        /\ Transaction_hash(Last.tx)
              = Transaction_hash([Last.tx EXCEPT !.signature = None])
        /\ Called("add_signature") =>
              /\ Transaction_hash(Last.tx) = Transaction_hash(Last.before)
              /\ HoldingBlockHashes(Last.tx) = HoldingBlockHashes(Last.before)
        /\ (Called("set_from") /\ Last.tx.from # Last.before.from) =>
              Transaction_hash(Last.tx) # Transaction_hash(Last.before)
        /\ (Called("write_data") /\ Last.tx.data # Last.before.data) =>
              Transaction_hash(Last.tx) # Transaction_hash(Last.before)

\* a signature over the old hash is replaced by one of the other keypair,
\* and the hash stays
C25_Witness ==
    /\ Called("add_signature")
    /\ is_some(Last.before.signature)
    /\ Last.tx.signature # Last.before.signature
    /\ is_some(Last.tx.from)
    /\ Transaction_hash(Last.tx) = Transaction_hash(Last.before)

====
